---- MODULE Spec2Model ----
(***************************************************************************)
(* FacilityAI backend (src/main.py, src/schemas.py): the scheduleslot and  *)
(* booking collections, the booking-creation handler POST /api/bookings    *)
(* taken one store call at a time, and the availability query              *)
(* POST /api/availability.                                                  *)
(*                                                                         *)
(* Times are whole hours counted from 2024-01-01T00:00.  Python's None is  *)
(* the value None below; a handler's local list `slots` is a sequence.     *)
(***************************************************************************)
EXTENDS Integers, FiniteSets, Sequences, TLC

\* ---------------------------------------------------------------- bounds
NumSlots == 2
NumRequests == 2
MaxRemaining == 2

\* ------------------------------------------------------------ the domain
None == "<None>"

SlotIds == 1..NumSlots
Requests == 1..NumRequests

\* schemas.py: ScheduleSlot.status
SlotStatus == {"open", "held", "booked", "blocked"}

\* timedelta(days=1) in hours
HoursPerDay == 24

\* bson.ObjectId, and str() of one; ObjectId(str(x)) = x
ObjectId(s) == [oid |-> s]
Str(id) == id.oid

\* ---------------------------------------------------------------- state
VARIABLES
    scheduleslot,   \* the scheduleslot collection: slot number -> document
    booking,        \* the booking collection, in insertion order
    req,            \* the booking requests: position and locals of each
    avail,          \* the availability request: its input and its outcome
    initial         \* history: the scheduleslot collection as first seen

vars == <<scheduleslot, booking, req, avail, initial>>

\* ------------------------------------------------------ the store adapter
\* A filter maps field names to conditions: equality, or a half-open range.
Eq(v) == [op |-> "eq", v |-> v]
Range(lo, hi) == [op |-> "range", gte |-> lo, lt |-> hi]

Matches(doc, filter_dict) ==
    \A k \in DOMAIN filter_dict :
        LET c == filter_dict[k] IN
        IF c.op = "eq" THEN doc[k] = c.v
        ELSE doc[k] >= c.gte /\ doc[k] < c.lt

Min(a, b) == IF a <= b THEN a ELSE b

\* The slot numbers of ids, ascending, as a sequence.
RECURSIVE Ascending(_)
Ascending(ids) ==
    IF ids = {} THEN <<>>
    ELSE LET m == CHOOSE x \in ids : \A y \in ids : x <= y
         IN <<m>> \o Ascending(ids \ {m})

\* get_documents(collection, filter, limit): the possible results, each a list
\* of at most `limit` matching documents.  The store promises no order among
\* the matching documents, so any `limit` of them may come back.
GetDocuments(collection, filter_dict, limit) ==
    LET matching == {i \in DOMAIN collection : Matches(collection[i], filter_dict)}
        n == Min(limit, Cardinality(matching))
    IN { [j \in 1..n |-> collection[Ascending(pick)[j]]] :
            pick \in {p \in SUBSET matching : Cardinality(p) = n} }

\* create_document(collection, record): the new collection and the new id.
NewId(collection) == ToString(Len(collection) + 1)
CreateDocument(collection, record) ==
    Append(collection, [record EXCEPT !._id = ObjectId(NewId(collection))])

\* ------------------------------------------------------- booking creation
\* class BookingCreate: the request bodies.  <<9, 10>> is the window of a slot,
\* <<9, 11>> shares only its start, <<17, 18>> is the window of no slot.
Windows == {<<9, 10, None>>, <<9, 11, "web">>, <<17, 18, "">>}

Payloads ==
    { [customer_id |-> "cus1", service_id |-> "svc1", staff_id |-> None,
       start_time |-> w[1], end_time |-> w[2], notes |-> None, source |-> w[3]] :
        w \in Windows }

\* `a or b` on strings
Or(a, b) == IF a = None \/ a = "" THEN b ELSE a

\* line 96: the lookup filter
SlotFilter(payload) ==
    ("start_time" :> Eq(payload.start_time)) @@ ("end_time" :> Eq(payload.end_time))

\* Mutant of NotAvailable: "and" for "or".
NotAvailable_and(slot) == slot.status # "open" /\ slot.remaining <= 0

\* line 99: the availability test on the slot read
NotAvailable(slot) == slot.status # "open" \/ slot.remaining <= 0

\* Mutant of BookingDoc: str() taken of the whole conditional, so that a
\* booking without a slot carries the string "None".
BookingDoc_strnone(payload, slots) ==
    [_id |-> None,
     customer_id |-> payload.customer_id,
     service_id |-> payload.service_id,
     staff_id |-> payload.staff_id,
     start_time |-> payload.start_time,
     end_time |-> payload.end_time,
     status |-> "confirmed",
     quantity |-> 1,
     price_cents |-> 0,
     source |-> Or(payload.source, "ai"),
     notes |-> payload.notes,
     schedule_slot_id |-> IF slots # <<>> THEN Str(slots[1]._id) ELSE "None"]

\* lines 101-113: the booking record
BookingDoc(payload, slots) ==
    [_id |-> None,
     customer_id |-> payload.customer_id,
     service_id |-> payload.service_id,
     staff_id |-> payload.staff_id,
     start_time |-> payload.start_time,
     end_time |-> payload.end_time,
     status |-> "confirmed",
     quantity |-> 1,
     price_cents |-> 0,
     source |-> Or(payload.source, "ai"),
     notes |-> payload.notes,
     schedule_slot_id |-> IF slots # <<>> THEN Str(slots[1]._id) ELSE None]

\* line 119: the status written, from the slot as it was read
NewStatus(slot) == IF slot.remaining - 1 <= 0 THEN "booked" ELSE "open"

\* line 119: update_one({"_id": id}, {"$inc": {"remaining": -1}, "$set": {"status": s}})
UpdateOne(collection, id, s) ==
    [i \in DOMAIN collection |->
        IF collection[i]._id = id
        THEN [collection[i] EXCEPT !.remaining = @ - 1, !.status = s]
        ELSE collection[i]]

\* Mutant of SlotUpdate: remaining written with $set from the slot as read.
SlotUpdate_set(collection, slot) ==
    [i \in DOMAIN collection |->
        IF collection[i]._id = ObjectId(Str(slot._id))
        THEN [collection[i] EXCEPT !.remaining = slot.remaining - 1,
                                   !.status = NewStatus(slot)]
        ELSE collection[i]]

\* line 119: the update of the slot read
SlotUpdate(collection, slot) ==
    UpdateOne(collection, ObjectId(Str(slot._id)), NewStatus(slot))

Created(id) == [code |-> 200, id |-> id, status |-> "created"]
Rejected == [code |-> 400, detail |-> "Slot not available"]
ServerError == [code |-> 500, detail |-> "Internal Server Error"]

Idle == [pc |-> "idle"]

\* lines 95-100: read the slot, refuse when it is not available
CheckSlot(r) ==
    /\ req[r].pc = "idle"
    /\ IF r = 1 THEN TRUE ELSE req[r - 1].pc # "idle"
    /\ \E payload \in Payloads :
       \E slots \in GetDocuments(scheduleslot, SlotFilter(payload), 1) :
          req' = [req EXCEPT ![r] =
                    IF slots # <<>> /\ NotAvailable(slots[1])
                    THEN [pc |-> "rejected", payload |-> payload, slots |-> slots,
                          response |-> Rejected]
                    ELSE [pc |-> "insert", payload |-> payload, slots |-> slots]]
    /\ UNCHANGED <<scheduleslot, booking, avail, initial>>

\* lines 101-114, and 116, 122 when no slot was read
InsertBooking(r) ==
    /\ req[r].pc = "insert"
    /\ booking' = CreateDocument(booking, BookingDoc(req[r].payload, req[r].slots))
    /\ req' = [req EXCEPT ![r] =
                 IF req[r].slots # <<>>
                 THEN [pc |-> "update", payload |-> req[r].payload,
                       slots |-> req[r].slots, booking_id |-> NewId(booking)]
                 ELSE [pc |-> "done", payload |-> req[r].payload,
                       slots |-> req[r].slots, booking_id |-> NewId(booking),
                       update_failed |-> FALSE,
                       response |-> Created(NewId(booking))]]
    /\ UNCHANGED <<scheduleslot, avail, initial>>

\* Mutant of UpdateSlot: the slot is read again before the update, and the
\* request is refused when nothing remains.
UpdateSlot_guarded(r) ==
    /\ req[r].pc = "update"
    /\ \E i \in SlotIds :
          /\ scheduleslot[i]._id = req[r].slots[1]._id
          /\ IF scheduleslot[i].remaining <= 0
             THEN /\ scheduleslot' = scheduleslot
                  /\ req' = [req EXCEPT ![r] =
                        [pc |-> "done", payload |-> req[r].payload,
                         slots |-> req[r].slots, booking_id |-> req[r].booking_id,
                         update_failed |-> FALSE, response |-> Rejected]]
             ELSE /\ scheduleslot' = SlotUpdate(scheduleslot, req[r].slots[1])
                  /\ req' = [req EXCEPT ![r] =
                        [pc |-> "done", payload |-> req[r].payload,
                         slots |-> req[r].slots, booking_id |-> req[r].booking_id,
                         update_failed |-> FALSE,
                         response |-> Created(req[r].booking_id)]]
    /\ UNCHANGED <<booking, avail, initial>>

\* lines 116-119, 122: the decrement goes through
UpdateSlot(r) ==
    /\ req[r].pc = "update"
    /\ scheduleslot' = SlotUpdate(scheduleslot, req[r].slots[1])
    /\ req' = [req EXCEPT ![r] =
                 [pc |-> "done", payload |-> req[r].payload, slots |-> req[r].slots,
                  booking_id |-> req[r].booking_id, update_failed |-> FALSE,
                  response |-> Created(req[r].booking_id)]]
    /\ UNCHANGED <<booking, avail, initial>>

\* Mutant of UpdateSlotFails: the exception leaves the handler.
UpdateSlotFails_raises(r) ==
    /\ req[r].pc = "update"
    /\ req' = [req EXCEPT ![r] =
                 [pc |-> "done", payload |-> req[r].payload, slots |-> req[r].slots,
                  booking_id |-> req[r].booking_id, update_failed |-> TRUE,
                  response |-> ServerError]]
    /\ UNCHANGED <<scheduleslot, booking, avail, initial>>

\* lines 116-122: the decrement raises, and the handler passes over it
UpdateSlotFails(r) ==
    /\ req[r].pc = "update"
    /\ req' = [req EXCEPT ![r] =
                 [pc |-> "done", payload |-> req[r].payload, slots |-> req[r].slots,
                  booking_id |-> req[r].booking_id, update_failed |-> TRUE,
                  response |-> Created(req[r].booking_id)]]
    /\ UNCHANGED <<scheduleslot, booking, avail, initial>>

\* schemas.py ScheduleSlot: the documents the collection starts with
\* slots 1 and 2 share a window
SlotTimes(i) == IF i <= 2 THEN <<9, 10>> ELSE <<13, 14>>

SlotDocs(i) ==
    { [_id |-> ObjectId(ToString(i)), service_id |-> "svc1", staff_id |-> None,
       start_time |-> SlotTimes(i)[1], end_time |-> SlotTimes(i)[2],
       remaining |-> n, status |-> s] :
        n \in 0..MaxRemaining, s \in SlotStatus }

NoAvail == [pc |-> "idle"]

Init ==
    /\ scheduleslot \in {f \in [SlotIds -> UNION {SlotDocs(i) : i \in SlotIds}] :
                            \A i \in SlotIds : f[i] \in SlotDocs(i)}
    /\ booking = <<>>
    /\ req = [r \in Requests |-> Idle]
    /\ avail = NoAvail
    /\ initial = scheduleslot

Next ==
    \E r \in Requests :
        \/ CheckSlot(r)
        \/ InsertBooking(r)
        \/ UpdateSlot(r)
        \/ UpdateSlotFails(r)

Spec == Init /\ [][Next]_vars

\* ---------------------------------------------------- availability query
\* Python truthiness of an Optional[str]
Truthy(s) == s # None /\ s # ""

\* datetime.fromisoformat on the date strings a query carries, in hours since
\* 2024-01-01T00:00; a string outside the table raises ValueError.
IsoTable ==
    ("2024-01-01" :> 0) @@ ("2024-01-02" :> HoursPerDay) @@ ("2024-01-01T09:00" :> 9)

FromIsoformat(s) ==
    IF s \in DOMAIN IsoTable THEN [ok |-> TRUE, value |-> IsoTable[s]]
    ELSE [ok |-> FALSE]

\* Mutant of StartDay: a date that does not parse falls back to the clock.
StartDay_fallback(query, now) ==
    IF Truthy(query.date) /\ FromIsoformat(query.date).ok
    THEN FromIsoformat(query.date)
    ELSE [ok |-> TRUE, value |-> now]

\* lines 67-73: start_day, or the ValueError caught at line 70
StartDay(query, now) ==
    IF Truthy(query.date) THEN FromIsoformat(query.date)
    ELSE [ok |-> TRUE, value |-> now]

\* line 74: start_day + timedelta(days=query.days)
EndDay(start_day, days) == start_day + HoursPerDay * days

\* Mutant of FilterDict: end_day is ignored, and the range ends HoursPerDay
\* days after start_day whatever query.days is.
FilterDict_open(query, start_day, end_day) ==
    LET f0 == "status" :> Eq("open")
        f1 == IF Truthy(query.service_id)
              THEN ("service_id" :> Eq(query.service_id)) @@ f0 ELSE f0
        f2 == IF Truthy(query.staff_id)
              THEN ("staff_id" :> Eq(query.staff_id)) @@ f1 ELSE f1
    IN ("start_time" :> Range(start_day, start_day + HoursPerDay * HoursPerDay)) @@ f2

\* lines 61-65, 75: filter_dict
FilterDict(query, start_day, end_day) ==
    LET f0 == "status" :> Eq("open")
        f1 == IF Truthy(query.service_id)
              THEN ("service_id" :> Eq(query.service_id)) @@ f0 ELSE f0
        f2 == IF Truthy(query.staff_id)
              THEN ("staff_id" :> Eq(query.staff_id)) @@ f1 ELSE f1
    IN ("start_time" :> Range(start_day, end_day)) @@ f2

\* lines 78-79: s["_id"] = str(s.get("_id"))
Normalize(slots) == [j \in DOMAIN slots |-> [slots[j] EXCEPT !._id = Str(@)]]

InvalidDate == [code |-> 400, detail |-> "Invalid date format, use YYYY-MM-DD"]

\* class AvailabilityQuery: the request bodies
Queries ==
    [service_id : {None, "", "svc1"},
     staff_id : {None, "stf1"},
     date : {None, "", "2024-01-01", "2024-01-01T09:00", "01/01/2024"},
     days : {-1, 1, 2},
     limit : {1, 2}]

\* datetime.utcnow() at the time of the request; avail.clock lists the readings
\* the handler took
Clock == {9, 10}

\* lines 59-80
CheckAvailability ==
    /\ avail.pc = "idle"
    /\ \E query \in Queries :
       \E now \in (IF Truthy(query.date) THEN {0} ELSE Clock) :
         LET start_day == StartDay(query, now)
             clock == IF Truthy(query.date) THEN <<>> ELSE <<now>>
         IN
         IF ~start_day.ok
         THEN avail' = [pc |-> "done", query |-> query, clock |-> clock, reads |-> 0,
                        response |-> InvalidDate]
         ELSE \E slots \in GetDocuments(scheduleslot,
                              FilterDict(query, start_day.value,
                                         EndDay(start_day.value, query.days)),
                              query.limit) :
                avail' = [pc |-> "done", query |-> query, clock |-> clock, reads |-> 1,
                          response |-> [code |-> 200, slots |-> Normalize(slots)]]
    /\ UNCHANGED <<scheduleslot, booking, req, initial>>

AvailSlotDocs(i) ==
    { [_id |-> ObjectId(ToString(i)), service_id |-> svc, staff_id |-> stf,
       start_time |-> t, end_time |-> t + 1, remaining |-> 1, status |-> s] :
        svc \in {"svc1", "svc2"}, stf \in {None, "stf1"},
        t \in {9, HoursPerDay}, s \in SlotStatus }

InitAvail ==
    /\ scheduleslot \in {f \in [SlotIds -> UNION {AvailSlotDocs(i) : i \in SlotIds}] :
                            \A i \in SlotIds : f[i] \in AvailSlotDocs(i)}
    /\ booking = <<>>
    /\ req = [r \in Requests |-> Idle]
    /\ avail = NoAvail
    /\ initial = scheduleslot

NextAvail == CheckAvailability

SpecAvail == InitAvail /\ [][NextAvail]_vars

\* ------------------------------------------------------------ properties
Quiescent == \A r \in Requests : req[r].pc \in {"idle", "done", "rejected"}

\* The request r takes its first step (the slot lookup) in this step.
Looks(r) == req[r].pc = "idle" /\ req'[r].pc # "idle"

\* The bookings that refer to the slot numbered i.
BookingsOf(i) ==
    {k \in 1..Len(booking) : booking[k].schedule_slot_id = ToString(i)}

\* C1: whenever the lookup by exact start_time and end_time returns a slot
\* whose status is not "open" or whose remaining is <= 0, the request ends
\* with 400 "Slot not available", inserts no booking then or later, and
\* leaves every slot as it was.
C1_RejectsUnavailable ==
    [][\A r \in Requests :
         /\ Looks(r) =>
              LET found == req'[r].slots
                  p == req'[r].payload
              IN /\ found # <<>> =>
                      \E i \in SlotIds :
                          /\ scheduleslot[i] = found[1]
                          /\ found[1].start_time = p.start_time
                          /\ found[1].end_time = p.end_time
                 /\ (found # <<>> /\ (found[1].status # "open"
                                      \/ found[1].remaining <= 0)) =>
                      /\ req'[r].pc = "rejected"
                      /\ req'[r].response.code = 400
                      /\ req'[r].response.detail = "Slot not available"
                      /\ booking' = booking
                      /\ scheduleslot' = scheduleslot
         /\ req[r].pc = "rejected" => req'[r] = req[r]
      ]_vars

\* C1 witness: a request refused on an open slot with nothing remaining, and
\* another refused on a slot that is not open.
C1_Witness ==
    /\ \E r \in Requests :
          /\ req[r].pc = "rejected"
          /\ req[r].slots[1].status = "open"
          /\ req[r].slots[1].remaining = 0
    /\ \E r \in Requests :
          /\ req[r].pc = "rejected"
          /\ req[r].slots[1].status = "held"
          /\ req[r].slots[1].remaining > 0
    /\ booking = <<>>

\* C2: when the matched slot was read as "open" with remaining = N > 0, the
\* booking, once its slot update has gone through, leaves the slot's
\* remaining at N-1, with status "booked" if N-1 = 0 and "open" otherwise.
C2_DecrementsToNMinusOne ==
    [][\A r \in Requests :
         (/\ req[r].pc = "update"
          /\ req'[r].pc = "done"
          /\ ~req'[r].update_failed) =>
            LET read == req[r].slots[1]
                N == read.remaining
            IN \A i \in SlotIds :
                 scheduleslot[i]._id = read._id =>
                    /\ scheduleslot'[i].remaining = N - 1
                    /\ scheduleslot'[i].status =
                          IF N - 1 = 0 THEN "booked" ELSE "open"
      ]_vars

\* C3: a slot that started with remaining >= 0 never has remaining < 0.
C3_RemainingNeverNegative ==
    \A i \in SlotIds :
        initial[i].remaining >= 0 => scheduleslot[i].remaining >= 0

\* C4: with no booking request in flight, a slot that started "open" with
\* remaining >= 1 and was modified by the booking flow is "booked" exactly
\* when its remaining is <= 0, and "open" otherwise.
C4_BookedIffExhausted ==
    Quiescent =>
        \A i \in SlotIds :
            (/\ initial[i].status = "open"
             /\ initial[i].remaining >= 1
             /\ scheduleslot[i] # initial[i]) =>
                /\ scheduleslot[i].status = "booked" <=> scheduleslot[i].remaining <= 0
                /\ scheduleslot[i].remaining > 0 => scheduleslot[i].status = "open"

\* Both r1 and r2 read the slot numbered i as "open" with remaining = 1.
BothRead(r1, r2, i) ==
    /\ r1 # r2
    /\ \A r \in {r1, r2} :
          /\ req[r].pc # "idle"
          /\ req[r].slots # <<>>
          /\ req[r].slots[1]._id = scheduleslot[i]._id
          /\ req[r].slots[1].status = "open"
          /\ req[r].slots[1].remaining = 1

\* C5: two requests that both read the same slot as "open" with remaining = 1
\* both pass the availability check; neither is refused afterwards, and when
\* both have answered, both answers are "created" and two distinct booking
\* records refer to that slot.
C5_BothSucceed ==
    \A r1, r2 \in Requests : \A i \in SlotIds :
        BothRead(r1, r2, i) =>
            /\ req[r1].pc # "rejected" /\ req[r2].pc # "rejected"
            /\ (req[r1].pc = "done" /\ req[r2].pc = "done") =>
                  /\ req[r1].response.code = 200
                  /\ req[r2].response.code = 200
                  /\ req[r1].response.status = "created"
                  /\ req[r2].response.status = "created"
                  /\ req[r1].response.id # req[r2].response.id
                  /\ \A r \in {r1, r2} :
                        \E k \in BookingsOf(i) :
                            booking[k]._id = ObjectId(req[r].response.id)

\* C5 witness: the oversell.  A slot that started "open" with remaining = 1,
\* two requests that both read it so and both went through to their slot
\* update, and two bookings on the slot, whose remaining is now -1.
C5_Witness ==
    \E r1, r2 \in Requests : \E i \in SlotIds :
        /\ BothRead(r1, r2, i)
        /\ initial[i].status = "open" /\ initial[i].remaining = 1
        /\ req[r1].pc = "done" /\ ~req[r1].update_failed
        /\ req[r2].pc = "done" /\ ~req[r2].update_failed
        /\ Cardinality(BookingsOf(i)) = 2
        /\ scheduleslot[i].remaining = -1

\* C6: when the slot update fails after the booking was inserted, the
\* booking stays in the store, the answer is still {id, "created"} with no
\* error, and the slot's remaining and status are unchanged.
C6_FailureSwallowed ==
    [][\A r \in Requests :
         (/\ req[r].pc = "update"
          /\ req'[r].pc = "done"
          /\ req'[r].update_failed) =>
            /\ booking' = booking
            /\ \E k \in 1..Len(booking) :
                  booking[k]._id = ObjectId(req[r].booking_id)
            /\ req'[r].response = [code |-> 200, id |-> req[r].booking_id,
                                   status |-> "created"]
            /\ scheduleslot' = scheduleslot
      ]_vars

\* C6 witness: a request answered "created" whose slot update failed, its
\* booking in the store and the slot as it was at the start.
C6_Witness ==
    \E r \in Requests : \E i \in SlotIds :
        /\ req[r].pc = "done"
        /\ req[r].update_failed
        /\ req[r].response.status = "created"
        /\ req[r].slots[1]._id = scheduleslot[i]._id
        /\ scheduleslot[i] = initial[i]
        /\ scheduleslot[i].remaining = 1
        /\ Cardinality(BookingsOf(i)) = 1

\* No slot of the collection has exactly the times of the request body p.
NoSlotAt(p) ==
    \A i \in SlotIds :
        ~(scheduleslot[i].start_time = p.start_time
          /\ scheduleslot[i].end_time = p.end_time)

\* C7: when no slot has start_time and end_time exactly equal to the
\* request's, the request succeeds: it inserts exactly one booking, with
\* status "confirmed", price_cents 0 and schedule_slot_id null, and it
\* modifies no slot.
C7_NoSlotStillBooks ==
    [][\A r \in Requests :
         /\ (Looks(r) /\ NoSlotAt(req'[r].payload)) =>
              /\ req'[r].pc = "insert"
              /\ req'[r].slots = <<>>
              /\ booking' = booking
              /\ scheduleslot' = scheduleslot
         /\ (req[r].pc = "insert" /\ req[r].slots = <<>> /\ req'[r] # req[r]) =>
              /\ Len(booking') = Len(booking) + 1
              /\ SubSeq(booking', 1, Len(booking)) = booking
              /\ LET b == booking'[Len(booking')] IN
                    /\ b.status = "confirmed"
                    /\ b.price_cents = 0
                    /\ b.schedule_slot_id = None
                    /\ b.start_time = req[r].payload.start_time
                    /\ b.end_time = req[r].payload.end_time
                    /\ req'[r].response =
                          [code |-> 200, id |-> Str(b._id), status |-> "created"]
              /\ scheduleslot' = scheduleslot
              /\ req'[r].pc = "done"
         /\ req[r].pc = "done" => req'[r] = req[r]
      ]_vars

\* C7 witness: a request for a window that shares only its start with a
\* slot's has answered "created", and its booking carries no slot.
C7_Witness ==
    \E r \in Requests : \E k \in 1..Len(booking) :
        /\ req[r].pc = "done"
        /\ req[r].slots = <<>>
        /\ \E i \in SlotIds : scheduleslot[i].start_time = req[r].payload.start_time
        /\ booking[k]._id = ObjectId(req[r].response.id)
        /\ booking[k].schedule_slot_id = None
        /\ scheduleslot = initial

\* C10: with no booking request in flight and no slot update failed, for
\* every slot the initial remaining minus the current remaining is the number
\* of bookings that refer to the slot, and each of them has the slot's
\* start_time and end_time.
C10_Conservation ==
    (Quiescent /\ \A r \in Requests : req[r].pc = "done" => ~req[r].update_failed) =>
        \A i \in SlotIds :
            /\ initial[i].remaining - scheduleslot[i].remaining
                  = Cardinality(BookingsOf(i))
            /\ \A k \in BookingsOf(i) :
                  /\ booking[k].start_time = scheduleslot[i].start_time
                  /\ booking[k].end_time = scheduleslot[i].end_time

\* C10 witness: two requests whose steps interleaved on one slot have both
\* answered, and the slot's remaining went from 2 to 0.
C10_Witness ==
    /\ Quiescent
    /\ \A r \in Requests : req[r].pc = "done" => ~req[r].update_failed
    /\ \E i \in SlotIds :
          /\ initial[i].remaining = 2
          /\ scheduleslot[i].remaining = 0
          /\ Cardinality(BookingsOf(i)) = 2
          /\ \E r1, r2 \in Requests :
                /\ r1 # r2
                /\ req[r1].pc = "done" /\ req[r2].pc = "done"
                /\ req[r1].slots # <<>> /\ req[r2].slots # <<>>
                /\ req[r1].slots[1]._id = scheduleslot[i]._id
                /\ req[r2].slots[1]._id = scheduleslot[i]._id
                /\ req[r1].slots[1].remaining = 2
                /\ req[r2].slots[1].remaining = 2

\* The start of the window the availability handler searched: the date it
\* parsed, or the clock reading it took.
WindowStart ==
    IF avail.clock # <<>> THEN avail.clock[1] ELSE IsoTable[avail.query.date]

Answered == avail.pc = "done" /\ avail.response.code = 200

\* The returned slot s is a slot of the collection, "open", and in the window.
OpenInWindow(s) ==
    /\ \E i \in SlotIds :
          /\ ObjectId(s._id) = scheduleslot[i]._id
          /\ [s EXCEPT !._id = ObjectId(@)] = scheduleslot[i]
    /\ s.status = "open"
    /\ s.status \notin {"held", "booked", "blocked"}
    /\ s.start_time >= WindowStart
    /\ s.start_time < WindowStart + HoursPerDay * avail.query.days

\* C8 as stated: every returned slot is "open", starts in
\* [window_start, window_start + days), and matches service_id and staff_id
\* whenever the request carried them.
C8_AsStated ==
    Answered =>
        \A j \in DOMAIN avail.response.slots :
            LET s == avail.response.slots[j] IN
            /\ OpenInWindow(s)
            /\ avail.query.service_id # None => s.service_id = avail.query.service_id
            /\ avail.query.staff_id # None => s.staff_id = avail.query.staff_id

\* C8 amended: every returned slot is "open", starts in
\* [window_start, window_start + days), and matches service_id and staff_id
\* whenever the request carried them as non-empty strings.
C8_OpenInWindowMatching ==
    Answered =>
        \A j \in DOMAIN avail.response.slots :
            LET s == avail.response.slots[j] IN
            /\ OpenInWindow(s)
            /\ (avail.query.service_id \notin {None, ""}) =>
                  s.service_id = avail.query.service_id
            /\ (avail.query.staff_id \notin {None, ""}) =>
                  s.staff_id = avail.query.staff_id

\* C8 witness: a query by service and staff returned a slot, while the
\* collection holds a slot in the window that is not "open" and another of a
\* different service.
C8_Witness ==
    /\ Answered
    /\ avail.query.service_id = "svc1"
    /\ avail.query.staff_id = "stf1"
    /\ Len(avail.response.slots) = 1
    /\ \E i \in SlotIds :
          /\ scheduleslot[i].status # "open"
          /\ scheduleslot[i].service_id = "svc1"
          /\ scheduleslot[i].staff_id = "stf1"
          /\ scheduleslot[i].start_time >= WindowStart
          /\ scheduleslot[i].start_time < WindowStart + HoursPerDay * avail.query.days

\* C9 as stated: a date that is present but does not parse always ends in the
\* 400 validation error, with no store read.
C9_AsStated ==
    (/\ avail.pc = "done"
     /\ avail.query.date # None
     /\ avail.query.date \notin DOMAIN IsoTable) =>
        /\ avail.response = InvalidDate
        /\ avail.reads = 0

\* C9 amended: a date that is present, not the empty string, and does not
\* parse always ends in the 400 validation error, with no store read.
C9_InvalidDateRejected ==
    (/\ avail.pc = "done"
     /\ avail.query.date \notin {None, ""}
     /\ avail.query.date \notin DOMAIN IsoTable) =>
        /\ avail.response.code = 400
        /\ avail.response.detail = "Invalid date format, use YYYY-MM-DD"
        /\ avail.reads = 0

\* C9 witness: the query with date "01/01/2024" was refused without a read.
C9_Witness ==
    /\ avail.pc = "done"
    /\ avail.query.date = "01/01/2024"
    /\ avail.response.code = 400
    /\ avail.reads = 0

====
